---- MODULE Spec2Model ----
(***************************************************************************)
(* A model of the file-system library of src/src/lib/open.ts: the          *)
(* Resolver (open / openFile), Directory and File handles, the lazy        *)
(* byte-range reads of readFile and the streaming writes of writeFile,     *)
(* over a small model of the host filesystem (node:fs on a POSIX host).    *)
(***************************************************************************)
EXTENDS Integers, Sequences, FiniteSets, TLC

VARIABLES
    fs,     \* the host filesystem: absolute path -> node
    pre,    \* the filesystem as it was when the last operation was called
    d,      \* the Directory handle the program holds (or NoHandle)
    f,      \* the File handle the program holds (or NoHandle)
    res,    \* the outcome of the last operation
    io,     \* the stream or the write in progress (or Idle)
    re      \* the pattern object the program passes to files / subdirs

vars == <<fs, pre, d, f, res, io, re>>

-----------------------------------------------------------------------------
(* Paths and names                                                         *)

\* Entry names; NameChars gives the characters a pattern is tested against.
Names == {"ab", "ba"}

NameChars(n) == IF n = "ab" THEN <<"a", "b">> ELSE <<"b", "a">>

\* The working directory of the process, against which relative names resolve.
Cwd == <<"ab">>

\* Absolute paths are sequences of names; <<>> is the root directory. The modelled
\* tree holds the entries of the root and of the working directory.
Paths == {<<>>} \cup {<<n>> : n \in Names} \cup {Cwd \o <<n>> : n \in Names}

\* The path strings handed to open / openFile: absolute or relative to Cwd.
InputNames ==
    {[rel |-> FALSE, segs |-> p] : p \in Paths \ {<<>>}}
        \cup {[rel |-> TRUE, segs |-> <<n>>] : n \in Names}

AbsName(p) == [rel |-> FALSE, segs |-> p]

NoName == AbsName(<<>>)

\* path.resolve(name)
Resolve(name) == IF name.rel THEN Cwd \o name.segs ELSE name.segs

\* path.dirname(p) of an absolute path
Dirname(p) == IF p = <<>> THEN <<>> ELSE SubSeq(p, 1, Len(p) - 1)

\* path.basename(p) of an absolute path
Basename(p) == IF p = <<>> THEN "" ELSE p[Len(p)]

\* path.join(p, name) of an absolute path and one segment
Join(p, n) == Append(p, n)

-----------------------------------------------------------------------------
(* The host filesystem (node:fs on POSIX)                                  *)

Absent == [kind |-> "none", data |-> <<>>]
DirNode == [kind |-> "dir", data |-> <<>>]
FileNode(data) == [kind |-> "file", data |-> data]

\* A symbolic link to the absolute path to. The modelled trees hold links as
\* entries of the working directory only, and no link points to a link.
LinkNode(to) == [kind |-> "link", data |-> <<>>, to |-> to]

\* The node at an absolute path; nothing exists outside the modelled tree.
Node(tree, p) == IF p \in DOMAIN tree THEN tree[p] ELSE Absent

\* The host resolves a name against the working directory of the process.
HostPath(name) == IF name.rel THEN Cwd \o name.segs ELSE name.segs

\* The error of walking to p: ENOTDIR when a component on the way is a regular
\* file, ENOENT when a component (or p itself) is absent.
WalkErr(tree, p) ==
    IF \E k \in 1..(Len(p) - 1) : Node(tree, SubSeq(p, 1, k)).kind = "file"
    THEN "ENOTDIR"
    ELSE IF \E k \in 1..Len(p) : Node(tree, SubSeq(p, 1, k)).kind = "none"
         THEN "ENOENT"
         ELSE "OK"

\* The node that a path names once a symbolic link at it is followed.
Followed(tree, p) ==
    IF Node(tree, p).kind = "link" THEN Node(tree, Node(tree, p).to) ELSE Node(tree, p)

\* fs.statSync(name): stat follows a symbolic link and describes its target; a
\* link to nothing is ENOENT.
StatSync(tree, name) ==
    LET p == HostPath(name)
        e == WalkErr(tree, p)
        n == Followed(tree, p)
    IN  IF e # "OK" THEN [err |-> e, kind |-> "none", size |-> 0]
        ELSE IF n.kind = "none" THEN [err |-> "ENOENT", kind |-> "none", size |-> 0]
        ELSE [err |-> "OK", kind |-> n.kind, size |-> Len(n.data)]

\* Mutant of MkdirSync: mkdir without { recursive: true }.
MkdirSyncFlat(tree, name) ==
    LET p == HostPath(name)
    IN  IF WalkErr(tree, Dirname(p)) # "OK"
        THEN [err |-> WalkErr(tree, Dirname(p)), fs |-> tree]
        ELSE IF Node(tree, p).kind # "none" THEN [err |-> "EEXIST", fs |-> tree]
        ELSE [err |-> "OK", fs |-> [tree EXCEPT ![p] = DirNode]]

\* fs.mkdirSync(name, { recursive: true })
MkdirSync(tree, name) ==
    LET p == HostPath(name)
    IN  IF \E k \in 1..Len(p) : Node(tree, SubSeq(p, 1, k)).kind = "file"
        THEN [err |-> "ENOTDIR", fs |-> tree]
        ELSE [err |-> "OK",
              fs |-> [q \in DOMAIN tree |->
                        IF \E k \in 1..Len(p) : q = SubSeq(p, 1, k)
                        THEN DirNode ELSE tree[q]]]

\* Opening name for writing with flag "w": the file is created or truncated.
OpenForWrite(tree, name) ==
    LET p == HostPath(name)
        e == WalkErr(tree, Dirname(p))
    IN  IF p = <<>> \/ Node(tree, p).kind = "dir" THEN [err |-> "EISDIR", fs |-> tree]
        ELSE IF e # "OK" THEN [err |-> e, fs |-> tree]
        ELSE IF Node(tree, Dirname(p)).kind = "file" THEN [err |-> "ENOTDIR", fs |-> tree]
        ELSE [err |-> "OK", fs |-> [tree EXCEPT ![p] = FileNode(<<>>)]]

\* Mutant of WriteFileSyncEmpty: the file is never written.
WriteFileSyncSkipped(tree, name) == [err |-> "OK", fs |-> tree]

\* fs.writeFileSync(name, "")
WriteFileSyncEmpty(tree, name) == OpenForWrite(tree, name)

\* Whether q is p or lies below p.
Below(p, q) == Len(q) >= Len(p) /\ SubSeq(q, 1, Len(p)) = p

\* fsp.rm(path, { recursive: true })
RmRecursive(tree, p) ==
    IF p = <<>> THEN [err |-> "EBUSY", fs |-> tree]
    ELSE IF WalkErr(tree, p) # "OK" THEN [err |-> WalkErr(tree, p), fs |-> tree]
    ELSE [err |-> "OK",
          fs |-> [q \in DOMAIN tree |-> IF Below(p, q) /\ q # <<>> THEN Absent ELSE tree[q]]]

\* A filesystem is a tree: whatever exists has a directory as its parent.
IsTree(tree) ==
    /\ tree[<<>>] = DirNode
    /\ \A p \in DOMAIN tree :
          (p # <<>> /\ tree[p].kind # "none") => tree[Dirname(p)].kind = "dir"

-----------------------------------------------------------------------------
(* Handles                                                                 *)

NoHandle == [kind |-> "none"]

\* new Directory(name): the path is resolved once, at construction.
Directory(name) == [kind |-> "Directory", path |-> Resolve(name)]

\* Directory.name, Directory.dirname (getters over the stored path)
DirectoryName(h) == Basename(h.path)
DirectoryDirname(h) == Dirname(h.path)

\* lookup(name) of mrmime: the MIME type of the name's extension, or none. The
\* name ba stands for a name with an extension the table knows.
Lookup(name) == IF Basename(Resolve(name)) = "ba" THEN "text/ba" ELSE ""

\* An argument that is not given.
Undefined == "undefined"

\* Mutant of File: the name is stored as given, not resolved.
FileUnresolved(filename, name, byteLength, ranged, start, end) ==
    [kind |-> "File", path |-> name.segs, name |-> Basename(Resolve(name)),
     filename |-> filename, byteLength |-> byteLength,
     ranged |-> ranged, start |-> start, end |-> end, type |-> Lookup(name)]

\* new File(content, name, props) over a lazy content of byteLength bytes that
\* reads filename; a handle is either the whole content (ranged = FALSE) or the
\* window [start, end) of it.
File(filename, name, byteLength, ranged, start, end) ==
    [kind |-> "File", path |-> Resolve(name), name |-> Basename(Resolve(name)),
     filename |-> filename, byteLength |-> byteLength,
     ranged |-> ranged, start |-> start, end |-> end, type |-> Lookup(name)]

\* File.dirname (getter over the stored path)
FileDirname(h) == Dirname(h.path)

\* createFile(filename, stats)
CreateFile(filename, stats) == File(filename, filename, stats.size, FALSE, 0, stats.size)

\* The length of a handle's window (LazyFile.size).
WindowLength(h) == IF h.ranged THEN h.end - h.start ELSE h.byteLength

\* isNoEntityError(error)
IsNoEntityError(err) == err = "ENOENT"

\* options?.autoCreate ?? true
AutoCreate(opt) == opt # "false"

Options == {"default", "true", "false"}

-----------------------------------------------------------------------------
(* Lazy reads                                                              *)

\* The default of readFile's end parameter (end = Infinity).
Infinity == 1000000

Min(a, b) == IF a <= b THEN a ELSE b
Max(a, b) == IF a >= b THEN a ELSE b

\* fs.createReadStream(filename, { start, end }): end is inclusive. The options
\* are validated when the stream is made: end must be Infinity or an integer >= 0
\* and start, when given, must not exceed end.
CreateReadStream(filename, hasStart, start, end) ==
    IF end # Infinity /\ (end < 0 \/ (hasStart /\ start > end))
    THEN [err |-> "ERR_OUT_OF_RANGE", filename |-> filename, pos |-> 0, last |-> 0]
    ELSE [err |-> "OK", filename |-> filename,
          pos |-> IF hasStart THEN start ELSE 0, last |-> end]

\* end - 1 of a number that may be Infinity
MinusOne(end) == IF end = Infinity THEN Infinity ELSE end - 1

\* readFile without the conversion of the exclusive end.
ReadFileInclusive(filename, hasStart, start, end) ==
    CreateReadStream(filename, hasStart, start, end)

\* readFile(filename, start, end): the exclusive end becomes the host's inclusive
\* end.
ReadFile(filename, hasStart, start, end) ==
    CreateReadStream(filename, hasStart, start, MinusOne(end))

\* LazyFile.stream(): an unsliced file reads its content with read(), a window
\* with read(start, end).
Stream(h) ==
    IF h.ranged THEN ReadFile(h.filename, TRUE, h.start, h.end)
    ELSE ReadFile(h.filename, FALSE, 0, Infinity)

\* The error of opening a read stream's file, met at the first read.
ReadOpenErr(tree, rs) ==
    LET st == StatSync(tree, rs.filename)
    IN  IF st.err # "OK" THEN st.err
        ELSE IF st.kind = "dir" THEN "EISDIR" ELSE "OK"

\* The bytes one host read of at most n bytes returns at the stream's position:
\* none at the end of the file or past the inclusive end.
HostRead(tree, rs, n) ==
    LET data == Node(tree, HostPath(rs.filename)).data
        upto == Min(Min(rs.last + 1, Len(data)), rs.pos + n)
    IN  SubSeq(data, rs.pos + 1, upto)

\* A stream drained in one go (bytes(), text()): the error it fails with or the
\* bytes of its chunks in yield order.
ReadAll(tree, h) ==
    LET rs == Stream(h)
    IN  IF rs.err # "OK" THEN [err |-> rs.err, bytes |-> <<>>]
        ELSE IF ReadOpenErr(tree, rs) # "OK"
        THEN [err |-> ReadOpenErr(tree, rs), bytes |-> <<>>]
        ELSE [err |-> "OK", bytes |-> HostRead(tree, rs, Infinity)]

\* The offset of a handle's window in its content.
WindowOffset(h) == IF h.ranged THEN h.start ELSE 0

\* A relative index of slice(): a negative one counts from the end of the
\* window, and the result is clamped to [0, len].
ClampIndex(rel, len) == IF rel < 0 THEN Max(len + rel, 0) ELSE Min(rel, len)

\* LazyFile.slice(start, end) (super.slice): the window [start, end) of the
\* current window, over the same content; no I/O.
LazySlice(h, start, end) ==
    LET len == WindowLength(h)
        a == ClampIndex(start, len)
        b == Max(ClampIndex(end, len), a)
    IN  [h EXCEPT !.ranged = TRUE,
                  !.start = WindowOffset(h) + a,
                  !.end = WindowOffset(h) + b]

\* Mutant of FileSliceAs: the type stays the one inferred from the name.
FileSliceInferred(h, start, end, contentType) ==
    LET content == LazySlice(h, start, end)
    IN  File(content.filename, AbsName(h.path), content.byteLength,
             content.ranged, content.start, content.end)

\* File.slice(start, end, contentType): a new File over the sliced content,
\* named this.path; { type: contentType } replaces the inferred type also when
\* contentType is not given, and the type is then empty.
FileSliceAs(h, start, end, contentType) ==
    LET content == LazySlice(h, start, end)
        file == File(content.filename, AbsName(h.path), content.byteLength,
                     content.ranged, content.start, content.end)
    IN  [file EXCEPT !.type = IF contentType = Undefined THEN "" ELSE contentType]

\* File.slice(start, end)
FileSlice(h, start, end) == FileSliceAs(h, start, end, Undefined)

-----------------------------------------------------------------------------
(* The Resolver                                                            *)

\* What a call did: the filesystem it left, how it ended (a handle, null, void or
\* a throw), the error thrown and the name the error's message carries.
Outcome(tree, out, err, h) ==
    [fs |-> tree, out |-> out, err |-> err, h |-> h, named |-> NoName]

\* throw new Error(`... "${name}" ...`)
Throw(tree, err, name) ==
    [fs |-> tree, out |-> "throw", err |-> err, h |-> NoHandle, named |-> name]

\* Mutant of IsFile: whatever exists passes for a regular file.
IsFileAlways(st) == TRUE

\* stats.isDirectory(), stats.isFile()
IsDirectory(st) == st.kind = "dir"
IsFile(st) == st.kind = "file"

\* Directory.open(name, options)
DirectoryOpen(tree, name, opt) ==
    LET st == StatSync(tree, name)
        mk == MkdirSync(tree, name)
        st2 == StatSync(mk.fs, name)
    IN  IF st.err = "OK"
        THEN IF ~IsDirectory(st)
             THEN Throw(tree, "WrongKind", name)
             ELSE Outcome(tree, "Directory", "OK", Directory(name))
        ELSE IF ~IsNoEntityError(st.err)
        THEN Outcome(tree, "throw", st.err, NoHandle)
        ELSE IF ~AutoCreate(opt)
        THEN Throw(tree, "NotFound", name)
        ELSE IF mk.err # "OK"
        THEN Outcome(mk.fs, "throw", mk.err, NoHandle)
        ELSE IF st2.err # "OK"
        THEN Outcome(mk.fs, "throw", st2.err, NoHandle)
        ELSE IF ~IsDirectory(st2)
        THEN Throw(mk.fs, "WrongKind", name)
        ELSE Outcome(mk.fs, "Directory", "OK", Directory(name))

\* File.open(name, options)
FileOpen(tree, name, opt) ==
    LET st == StatSync(tree, name)
        wr == WriteFileSyncEmpty(tree, name)
        st2 == StatSync(wr.fs, name)
    IN  IF st.err = "OK"
        THEN IF ~IsFile(st)
             THEN Throw(tree, "WrongKind", name)
             ELSE Outcome(tree, "File", "OK", CreateFile(name, st))
        ELSE IF ~IsNoEntityError(st.err)
        THEN Outcome(tree, "throw", st.err, NoHandle)
        ELSE IF ~AutoCreate(opt)
        THEN Throw(tree, "NotFound", name)
        ELSE IF wr.err # "OK"
        THEN Outcome(wr.fs, "throw", wr.err, NoHandle)
        ELSE IF st2.err # "OK"
        THEN Outcome(wr.fs, "throw", st2.err, NoHandle)
        ELSE IF ~IsFile(st2)
        THEN Throw(wr.fs, "WrongKind", name)
        ELSE Outcome(wr.fs, "File", "OK", CreateFile(name, st2))

\* Directory.subdir(name)
DirectorySubdir(tree, dir, n) ==
    LET dirname == AbsName(Join(dir.path, n))
        st == StatSync(tree, dirname)
    IN  IF st.err = "OK"
        THEN IF IsDirectory(st)
             THEN Outcome(tree, "Directory", "OK", Directory(dirname))
             ELSE Outcome(tree, "null", "OK", NoHandle)
        ELSE IF IsNoEntityError(st.err)
        THEN Outcome(tree, "null", "OK", NoHandle)
        ELSE Outcome(tree, "throw", st.err, NoHandle)

\* Directory.file(name)
DirectoryFile(tree, dir, n) ==
    LET filename == AbsName(Join(dir.path, n))
        st == StatSync(tree, filename)
    IN  IF st.err = "OK"
        THEN IF IsFile(st)
             THEN Outcome(tree, "File", "OK", CreateFile(filename, st))
             ELSE Outcome(tree, "null", "OK", NoHandle)
        ELSE IF IsNoEntityError(st.err)
        THEN Outcome(tree, "null", "OK", NoHandle)
        ELSE Outcome(tree, "throw", st.err, NoHandle)

\* Directory.delete()
DirectoryDelete(tree, dir) ==
    LET rm == RmRecursive(tree, dir.path)
    IN  IF rm.err = "OK" THEN Outcome(rm.fs, "void", "OK", NoHandle)
        ELSE Outcome(rm.fs, "reject", rm.err, NoHandle)

-----------------------------------------------------------------------------
(* Specification Spec: the Resolver and the lookups of a Directory handle  *)

\* The contents of the regular files the program starts with.
InitialDatas == {<<>>, <<1>>}

Nodes == {Absent, DirNode} \cup {FileNode(x) : x \in InitialDatas}

Trees == {t \in [Paths -> Nodes] : IsTree(t)}

Result(op, name, opt, child, o) ==
    [op |-> op, name |-> name, opt |-> opt, child |-> child,
     out |-> o.out, err |-> o.err, h |-> o.h, named |-> o.named]

\* No stream and no write is in progress.
Idle == [pc |-> "idle"]

\* The default filter of files / subdirs, /.*/ (a fresh object on every call).
DefaultFilter == [char |-> ".*", flag |-> "", lastIndex |-> 0]

NoResult == Result("none", NoName, "default", "", Outcome(<<>>, "void", "OK", NoHandle))

Init ==
    /\ fs \in Trees
    /\ pre = fs
    /\ d = NoHandle
    /\ f = NoHandle
    /\ res = NoResult
    /\ io = Idle
    /\ re = DefaultFilter

\* open(name, options)
Open(name, opt) ==
    LET o == DirectoryOpen(fs, name, opt)
    IN  /\ fs' = o.fs
        /\ pre' = fs
        /\ d' = IF o.out = "Directory" THEN o.h ELSE d
        /\ res' = Result("open", name, opt, "", o)
        /\ UNCHANGED <<f, io, re>>

\* openFile(name, options)
OpenFile(name, opt) ==
    LET o == FileOpen(fs, name, opt)
    IN  /\ fs' = o.fs
        /\ pre' = fs
        /\ res' = Result("openFile", name, opt, "", o)
        /\ UNCHANGED <<d, f, io, re>>

\* d.subdir(n)
Subdir(n) ==
    /\ d # NoHandle
    /\ LET o == DirectorySubdir(fs, d, n)
       IN  /\ fs' = o.fs
           /\ pre' = fs
           /\ res' = Result("subdir", AbsName(d.path), "default", n, o)
           /\ UNCHANGED <<d, f, io, re>>

\* d.file(n)
FileOf(n) ==
    /\ d # NoHandle
    /\ LET o == DirectoryFile(fs, d, n)
       IN  /\ fs' = o.fs
           /\ pre' = fs
           /\ res' = Result("file", AbsName(d.path), "default", n, o)
           /\ UNCHANGED <<d, f, io, re>>

\* d.delete()
Delete ==
    /\ d # NoHandle
    /\ LET o == DirectoryDelete(fs, d)
       IN  /\ fs' = o.fs
           /\ pre' = fs
           /\ res' = Result("delete", AbsName(d.path), "default", "", o)
           /\ UNCHANGED <<d, f, io, re>>

Next ==
    \/ \E name \in InputNames, opt \in Options : Open(name, opt)
    \/ \E name \in InputNames, opt \in Options : OpenFile(name, opt)
    \/ \E n \in Names : Subdir(n)
    \/ \E n \in Names : FileOf(n)
    \/ Delete

Spec == Init /\ [][Next]_vars

-----------------------------------------------------------------------------
(* Claims about the Resolver and the lookups (specification Spec)          *)

\* The path the last call was about, and what was there when it was called.
ResPath == HostPath(res.name)
ResBefore == Node(pre, ResPath)

\* Whether only the listed paths differ between the filesystem before and after.
OnlyChanged(S) == \A q \in Paths : q \notin S => fs[q] = pre[q]

\* The prefixes of a path, the path included, the root excluded.
Prefixes(p) == {SubSeq(p, 1, k) : k \in 1..Len(p)}

\* What C5 promises of open(path) on a missing path: the directory and its
\* missing parents are created, nothing else changes, and the handle names it.
CreatedDirectory ==
    /\ res.out = "Directory"
    /\ \A q \in Prefixes(ResPath) : fs[q] = DirNode
    /\ \A q \in Prefixes(ResPath) : pre[q].kind # "none" => fs[q] = pre[q]
    /\ OnlyChanged(Prefixes(ResPath))
    /\ res.h.path = ResPath
    /\ DirectoryName(res.h) = ResPath[Len(ResPath)]
    /\ DirectoryDirname(res.h) = SubSeq(ResPath, 1, Len(ResPath) - 1)

ExistingDirectory ==
    /\ res.out = "Directory"
    /\ fs = pre
    /\ res.h.path = ResPath

\* C5 as stated: open(path) with default options creates a directory at every
\* path at which nothing exists and returns its handle (path, name, dirname);
\* on an existing directory it returns the handle and changes nothing.
C5_AsStated ==
    (res.op = "open" /\ res.opt = "default") =>
        /\ ResBefore.kind = "none" => CreatedDirectory
        /\ ResBefore.kind = "dir" => ExistingDirectory

\* C5 amended: the same for every path for which stat reports not-found, that
\* is where nothing exists and no component on the way is a regular file; below
\* a regular file open(path) throws the host's ENOTDIR and creates nothing.
C5_Open ==
    (res.op = "open" /\ res.opt = "default") =>
        /\ StatSync(pre, res.name).err = "ENOENT" => CreatedDirectory
        /\ ResBefore.kind = "dir" => ExistingDirectory
        /\ StatSync(pre, res.name).err = "ENOTDIR" =>
              res.out = "throw" /\ res.err = "ENOTDIR" /\ fs = pre

\* open(path) made a directory together with its missing parent.
C5_Witness ==
    /\ res.op = "open" /\ res.opt = "default"
    /\ Len(ResPath) = 2
    /\ res.name.rel
    /\ pre[Dirname(ResPath)].kind = "none"
    /\ res.out = "Directory"
    /\ fs[ResPath] = DirNode

\* C6: openFile(path) with default options on a missing path whose parent
\* directory exists creates an empty regular file there and nothing else, and
\* returns a File handle of byteLength 0 whose text() is empty and whose name,
\* path and dirname are the basename, the resolved path and the parent.
C6_OpenFile ==
    (/\ res.op = "openFile" /\ res.opt = "default"
     /\ ResBefore.kind = "none"
     /\ WalkErr(pre, Dirname(ResPath)) = "OK"
     /\ Node(pre, Dirname(ResPath)).kind = "dir") =>
        /\ res.out = "File"
        /\ fs[ResPath] = FileNode(<<>>)
        /\ OnlyChanged({ResPath})
        /\ WindowLength(res.h) = 0
        /\ ReadAll(fs, res.h) = [err |-> "OK", bytes |-> <<>>]
        /\ res.h.path = ResPath
        /\ res.h.name = ResPath[Len(ResPath)]
        /\ FileDirname(res.h) = SubSeq(ResPath, 1, Len(ResPath) - 1)

\* openFile(path) made an empty file at a relative path.
C6_Witness ==
    /\ res.op = "openFile" /\ res.opt = "default"
    /\ res.name.rel
    /\ ResBefore.kind = "none"
    /\ res.out = "File"
    /\ fs[ResPath] = FileNode(<<>>)

\* C7: with autoCreate false, open and openFile on a path where
\* nothing exists throw a not-found error naming the path, return no handle
\* and leave the filesystem unchanged.
C7_NoAutoCreate ==
    (res.op \in {"open", "openFile"} /\ res.opt = "false" /\ ResBefore.kind = "none") =>
        /\ res.out = "throw" /\ res.err = "NotFound" /\ res.named = res.name
        /\ res.h = NoHandle
        /\ fs = pre

\* C8: open on an existing non-directory and openFile on an existing non-file
\* throw a wrong-kind error for every autoCreate setting, return no handle and
\* change nothing; a handle is returned only when the last stat reports the
\* requested kind.
C8_KindCheck ==
    /\ (res.op = "open" /\ ResBefore.kind = "file") =>
          res.out = "throw" /\ res.err = "WrongKind" /\ res.h = NoHandle /\ fs = pre
    /\ (res.op = "openFile" /\ ResBefore.kind = "dir") =>
          res.out = "throw" /\ res.err = "WrongKind" /\ res.h = NoHandle /\ fs = pre
    /\ (res.op = "open" /\ res.out # "throw") =>
          res.out = "Directory" /\ IsDirectory(StatSync(fs, res.name))
    /\ (res.op = "openFile" /\ res.out # "throw") =>
          res.out = "File" /\ IsFile(StatSync(fs, res.name))

\* openFile(path) threw on a directory although it may auto-create.
C8_Witness ==
    /\ res.op = "openFile" /\ res.opt = "default"
    /\ ResBefore.kind = "dir"
    /\ res.out = "throw" /\ res.err = "WrongKind"

\* The child a lookup was about and what is there.
ChildPath == Join(ResPath, res.child)
ChildNode == Node(fs, ChildPath)

\* C9: d.file(name) and d.subdir(name) never throw; they return null
\* when no child of that name exists or it is of the wrong kind, and otherwise
\* a handle whose path is join(d.path, name).
C9_Lookup ==
    /\ res.op = "file" =>
          /\ res.out # "throw"
          /\ ChildNode.kind # "file" => res.out = "null"
          /\ ChildNode.kind = "file" => res.out = "File" /\ res.h.path = ChildPath
    /\ res.op = "subdir" =>
          /\ res.out # "throw"
          /\ ChildNode.kind # "dir" => res.out = "null"
          /\ ChildNode.kind = "dir" => res.out = "Directory" /\ res.h.path = ChildPath


-----------------------------------------------------------------------------
(* Specification SpecSlice: slicing a File and streaming a window          *)

\* The longest file content, and the most bytes one host read returns (the
\* highWaterMark of fs.createReadStream).
MaxLen == 3
ChunkSize == 2

Bytes == {0, 1}

RECURSIVE SeqsUpTo(_)
SeqsUpTo(n) ==
    IF n = 0 THEN {<<>>}
    ELSE LET shorter == SeqsUpTo(n - 1)
         IN  shorter \cup {Append(x, b) : x \in {y \in shorter : Len(y) = n - 1}, b \in Bytes}

Datas == SeqsUpTo(MaxLen)

\* The file the slices are taken of.
SlicePath == Cwd \o <<"ba">>

SliceTree(data) ==
    [q \in Paths |-> IF q = SlicePath THEN FileNode(data)
                     ELSE IF q \in {<<>>, Cwd} THEN DirNode ELSE Absent]

RECURSIVE Concat(_)
Concat(chunks) == IF chunks = <<>> THEN <<>> ELSE Head(chunks) \o Concat(Tail(chunks))

\* h.stream(): the read stream is made at once; it throws when the host rejects
\* the range. kind tells the plain stream of f from the stream of a slice of a
\* slice; lo..hi is the part of the file the stream is entitled to.
StartStream(h, kind, direct, lo, hi) ==
    LET rs == Stream(h)
    IN  [pc |-> IF rs.err = "OK" THEN "reading" ELSE "failed",
         kind |-> kind, h |-> h, direct |-> direct, lo |-> lo, hi |-> hi,
         rs |-> rs, err |-> rs.err, chunks |-> <<>>, req |-> {}]

\* The offsets one host read of the stream asks for.
Requested(rs, n) == {k \in rs.pos..(rs.pos + n - 1) : k <= rs.last}

\* pull(controller): read.next() yields the next chunk, or done at the end; the
\* first read fails when the file cannot be opened.
PullStream(tree, s, n) ==
    LET chunk == HostRead(tree, s.rs, n)
    IN  IF ReadOpenErr(tree, s.rs) # "OK"
        THEN [s EXCEPT !.pc = "failed", !.err = ReadOpenErr(tree, s.rs)]
        ELSE IF chunk = <<>>
        THEN [s EXCEPT !.pc = "done", !.req = s.req \cup Requested(s.rs, n)]
        ELSE [s EXCEPT !.chunks = Append(s.chunks, chunk),
                       !.rs.pos = s.rs.pos + Len(chunk),
                       !.req = s.req \cup Requested(s.rs, n)]

InitSlice ==
    /\ \E data \in Datas : fs = SliceTree(data)
    /\ pre = fs
    /\ d = NoHandle
    /\ f = FileOpen(fs, AbsName(SlicePath), "default").h
    /\ res = NoResult
    /\ io = Idle
    /\ re = DefaultFilter

\* The indices the program slices with (Infinity stands for an omitted end).
Indices == (0 - MaxLen)..MaxLen \cup {Infinity}

\* f = f.slice(start, end)
Slice(start, end) ==
    /\ io.pc # "reading"
    /\ f' = FileSlice(f, start, end)
    /\ io' = Idle
    /\ UNCHANGED <<fs, pre, d, res, re>>

\* f.stream()
StreamWindow ==
    /\ io.pc # "reading"
    /\ io' = StartStream(f, "window", f, WindowOffset(f), WindowOffset(f) + WindowLength(f))
    /\ UNCHANGED <<fs, pre, d, f, res, re>>

\* f.slice(a, dd).slice(b - a, c - a).stream(), for a <= b <= c <= dd within f
StreamNested(a, b, c, dd) ==
    /\ io.pc # "reading"
    /\ a <= b /\ b <= c /\ c <= dd /\ dd <= WindowLength(f)
    /\ io' = StartStream(FileSlice(FileSlice(f, a, dd), b - a, c - a), "nested",
                         FileSlice(f, b, c), WindowOffset(f) + b, WindowOffset(f) + c)
    /\ UNCHANGED <<fs, pre, d, f, res, re>>

\* The consumer pulls the next chunk.
Pull ==
    /\ io.pc = "reading"
    /\ io' = PullStream(fs, io, ChunkSize)
    /\ UNCHANGED <<fs, pre, d, f, res, re>>

NextSlice ==
    \/ \E start, end \in Indices : Slice(start, end)
    \/ StreamWindow
    \/ \E a, b, c, dd \in 0..MaxLen : StreamNested(a, b, c, dd)
    \/ Pull

SpecSlice == InitSlice /\ [][NextSlice]_vars

\* The bytes start..end-1 of the file's content (end exclusive).
FileBytes(tree, p, start, end) == SubSeq(Node(tree, p).data, start + 1, end)

-----------------------------------------------------------------------------
(* Specification SpecSave: File.save and Directory.write                   *)

\* The promise of a write settled without writing (a synchronous throw inside
\* the async function).
Rejected(op, file, dir, err) ==
    [pc |-> "rejected", op |-> op, src |-> file, dir |-> dir,
     dest |-> NoName, rs |-> Stream(file), rd |-> "none", rerr |-> "OK",
     wr |-> "none", werr |-> "OK", buf |-> <<>>, drained |-> FALSE,
     out |-> "reject", err |-> err, h |-> NoHandle]

\* Directory.write(file) up to its first await: file.stream() makes the read
\* stream, writeFile makes the write stream (both open their file later) and
\* starts to copy.
DirectoryWrite(op, dir, file) ==
    LET rs == Stream(file)
    IN  IF rs.err # "OK" THEN Rejected(op, file, dir, rs.err)
        ELSE [pc |-> "copy", op |-> op, src |-> file, dir |-> dir,
              dest |-> AbsName(Join(dir.path, file.name)), rs |-> rs,
              rd |-> "pending", rerr |-> "OK", wr |-> "pending", werr |-> "OK",
              buf |-> <<>>, drained |-> FALSE,
              out |-> "pending", err |-> "OK", h |-> NoHandle]

\* File.save(): open(this.dirname).write(this)
FileSave(tree, file) ==
    LET o == DirectoryOpen(tree, AbsName(FileDirname(file)), "default")
    IN  [fs |-> o.fs,
         io |-> IF o.out = "throw" THEN Rejected("save", file, NoHandle, o.err)
                ELSE DirectoryWrite("save", o.h, file)]

\* The read stream opens its file.
ReadOpened(tree, s) ==
    IF ReadOpenErr(tree, s.rs) = "OK" THEN [s EXCEPT !.rd = "open"]
    ELSE [s EXCEPT !.rd = "error", !.rerr = ReadOpenErr(tree, s.rs)]

\* One turn of writeFile's for await loop: the next chunk goes to
\* writeStream.write; at the end of the source writeStream.end is called; a
\* failed source is caught, the write stream destroyed and the promise rejected.
CopyChunk(tree, s) ==
    LET chunk == HostRead(tree, s.rs, ChunkSize)
    IN  IF s.rd = "error"
        THEN [s EXCEPT !.pc = "rejected", !.out = "reject", !.err = s.rerr]
        ELSE IF chunk = <<>>
        THEN [s EXCEPT !.pc = "ending", !.drained = TRUE]
        ELSE [s EXCEPT !.rs.pos = s.rs.pos + Len(chunk),
                       !.buf = IF s.wr = "error" THEN s.buf ELSE Append(s.buf, chunk)]

\* The callback of writeStream.end runs, resolve() is called and write returns
\* this.file(file.name).
Resolved(tree, s) ==
    LET o == DirectoryFile(tree, s.dir, s.src.name)
    IN  IF o.out = "throw"
        THEN [s EXCEPT !.pc = "rejected", !.out = "reject", !.err = o.err]
        ELSE [s EXCEPT !.pc = "resolved", !.out = o.out, !.h = o.h]

\* The file of the program, written by save(); the root entry of the same name
\* is where write() of the root directory puts it.
SaveTree(data, other) ==
    [q \in Paths |-> IF q = SlicePath THEN FileNode(data)
                     ELSE IF q \in {<<>>, Cwd} THEN DirNode
                     ELSE IF q = <<"ba">> THEN other ELSE Absent]

InitSave ==
    /\ \E data \in Datas, other \in {Absent, DirNode, FileNode(<<>>), FileNode(<<1>>)} :
          fs = SaveTree(data, other)
    /\ pre = fs
    /\ d \in {Directory(AbsName(<<>>)), Directory(AbsName(Cwd))}
    /\ f = FileOpen(fs, AbsName(SlicePath), "default").h
    /\ res = NoResult
    /\ io = Idle
    /\ re = DefaultFilter

\* f = f.slice(start, end), before the write
SaveSlice(start, end) ==
    /\ io.pc = "idle"
    /\ f' = FileSlice(f, start, end)
    /\ UNCHANGED <<fs, pre, d, res, io, re>>

\* d.delete(), before the write
SaveDelete ==
    /\ io.pc = "idle"
    /\ fs' = DirectoryDelete(fs, d).fs
    /\ UNCHANGED <<pre, d, f, res, io, re>>

\* f.save() is called
Save ==
    /\ io.pc = "idle"
    /\ fs' = FileSave(fs, f).fs
    /\ io' = FileSave(fs, f).io
    /\ pre' = fs
    /\ UNCHANGED <<d, f, res, re>>

\* d.write(f) is called
Write ==
    /\ io.pc = "idle"
    /\ HostPath(AbsName(Join(d.path, f.name))) \in Paths
    /\ io' = DirectoryWrite("write", d, f)
    /\ pre' = fs
    /\ UNCHANGED <<fs, d, f, res, re>>

\* The host opens the file of the read stream.
RdOpen ==
    /\ io.pc \in {"copy", "ending"}
    /\ io.rd = "pending"
    /\ io' = ReadOpened(fs, io)
    /\ UNCHANGED <<fs, pre, d, f, res, re>>

\* The host opens the file of the write stream (flag w): it is created or
\* truncated. A stream destroyed while it opens still opens its file.
WrOpen ==
    /\ io.pc \in {"copy", "ending", "rejected"}
    /\ io.wr = "pending"
    /\ LET o == OpenForWrite(fs, io.dest)
       IN  /\ fs' = o.fs
           /\ io' = IF o.err = "OK" THEN [io EXCEPT !.wr = "open"]
                    ELSE [io EXCEPT !.wr = "error", !.werr = o.err]
    /\ UNCHANGED <<pre, d, f, res, re>>

\* The loop of writeFile takes the next chunk of the source.
Copy ==
    /\ io.pc = "copy"
    /\ io.rd # "pending"
    /\ io' = CopyChunk(fs, io)
    /\ UNCHANGED <<fs, pre, d, f, res, re>>

\* The write stream writes its oldest queued chunk at the end of the file.
WrFlush ==
    /\ io.pc \in {"copy", "ending"}
    /\ io.wr = "open"
    /\ io.buf # <<>>
    /\ fs' = [fs EXCEPT ![HostPath(io.dest)].data = @ \o Head(io.buf)]
    /\ io' = [io EXCEPT !.buf = Tail(io.buf)]
    /\ UNCHANGED <<pre, d, f, res, re>>

\* The host fails a write of a chunk or the closing of the file (disk full, I/O
\* error): the write stream is destroyed with the error.
SinkFault ==
    /\ io.pc \in {"copy", "ending"}
    /\ io.wr = "open"
    /\ io' = [io EXCEPT !.wr = "error", !.werr = "EIO", !.buf = <<>>]
    /\ UNCHANGED <<fs, pre, d, f, res, re>>

\* Everything is written: the write stream finishes and the callback of
\* writeStream.end resolves the promise.
Finish ==
    /\ io.pc = "ending"
    /\ io.wr = "open"
    /\ io.buf = <<>>
    /\ io' = Resolved(fs, [io EXCEPT !.wr = "closed"])
    /\ UNCHANGED <<fs, pre, d, f, res, re>>

\* The write stream failed: the callback of writeStream.end is called with the
\* error, which it ignores, and resolves the promise.
FinishFailed ==
    /\ io.pc = "ending"
    /\ io.wr = "error"
    /\ io' = Resolved(fs, io)
    /\ UNCHANGED <<fs, pre, d, f, res, re>>

\* The write stream failed and nothing listens to its error event: the error is
\* an uncaught exception, the process ends and the promise never settles.
Crash ==
    /\ io.pc \in {"copy", "ending"}
    /\ io.wr = "error"
    /\ io' = [io EXCEPT !.pc = "crashed"]
    /\ UNCHANGED <<fs, pre, d, f, res, re>>

NextSave ==
    \/ \E start, end \in Indices : SaveSlice(start, end)
    \/ SaveDelete
    \/ Save
    \/ Write
    \/ RdOpen
    \/ WrOpen
    \/ Copy
    \/ WrFlush
    \/ SinkFault
    \/ Finish
    \/ FinishFailed
    \/ Crash

SpecSave == InitSave /\ [][NextSave]_vars

\* The bytes of the window of the saved handle when the call was made.
WindowAtCall == ReadAll(pre, io.src)

\* C1: once f.save() resolves, the file at f.path holds exactly the bytes f's
\* window had when save() was called, and the returned handle has path f.path
\* and the byteLength of f's window.
C1_SavePersistsWindow ==
    (io.pc = "resolved" /\ io.op = "save" /\ WindowAtCall.err = "OK") =>
        /\ Node(fs, io.src.path) = FileNode(WindowAtCall.bytes)
        /\ io.out = "File"
        /\ io.h.path = io.src.path
        /\ WindowLength(io.h) = Len(WindowAtCall.bytes)

\* C2: when the destination write fails (opening the sink, writing a chunk,
\* finalizing) or the source fails, the promise rejects with the underlying
\* error and never resolves; it resolves only after the whole source was
\* consumed and the sink finalized.
C2_FailureRejects ==
    /\ (io.pc \in {"resolved", "rejected"} /\ io.wr = "error") =>
          io.pc = "rejected" /\ io.err \in {io.werr, io.rerr} \ {"OK"}
    /\ (io.pc \in {"resolved", "rejected"} /\ io.rd = "error") =>
          io.pc = "rejected" /\ io.err \in {io.werr, io.rerr} \ {"OK"}
    /\ io.pc = "resolved" => io.drained /\ io.wr = "closed"

\* The destination of the write in flight.
DestPath == HostPath(io.dest)

\* C11: once d.write(f) resolves, the file at join(d.path, f.name) holds exactly
\* the bytes of f's window, the returned handle has that path and the byteLength
\* of the window, and when f.path is not the destination the file at f.path and
\* every other entry are unchanged.
C11_WritePersistsWindow ==
    (io.pc = "resolved" /\ io.op = "write" /\ WindowAtCall.err = "OK") =>
        /\ DestPath = Join(io.dir.path, io.src.name)
        /\ Node(fs, DestPath) = FileNode(WindowAtCall.bytes)
        /\ io.out = "File"
        /\ io.h.path = DestPath
        /\ WindowLength(io.h) = Len(WindowAtCall.bytes)
        /\ \A q \in Paths \ {DestPath} : fs[q] = pre[q]

-----------------------------------------------------------------------------
(* Specification SpecList: files(pattern) and subdirs(pattern)             *)

\* The order in which the host lists the names of a directory.
NameOrder == <<"ab", "ba">>

\* Mutant of ReaddirSync: the listing is the one of the filesystem before the
\* last operation.
ReaddirSyncStale(tree, p) ==
    LET present(n) == Node(pre, Join(p, n)).kind # "none"
        names == SelectSeq(NameOrder, present)
    IN  [err |-> "OK",
         entries |-> [i \in 1..Len(names) |->
                        [name |-> names[i], kind |-> Node(pre, Join(p, names[i])).kind]]]

\* fs.readdirSync(path, { withFileTypes: true }): the entries of a directory
\* with their kind, in the host's order. The kind of a Dirent is the one of the
\* entry itself: a symbolic link is listed as a link, whatever it points to.
ReaddirSync(tree, p) ==
    LET present(n) == Node(tree, Join(p, n)).kind # "none"
        names == SelectSeq(NameOrder, present)
    IN  IF WalkErr(tree, p) # "OK" THEN [err |-> WalkErr(tree, p), entries |-> <<>>]
        ELSE IF Node(tree, p).kind # "dir" THEN [err |-> "ENOTDIR", entries |-> <<>>]
        ELSE [err |-> "OK",
              entries |-> [i \in 1..Len(names) |->
                             [name |-> names[i], kind |-> Node(tree, Join(p, names[i])).kind]]]

\* Directory.entryNames()
EntryNames(tree, dir) ==
    LET ls == ReaddirSync(tree, dir.path)
    IN  [i \in 1..Len(ls.entries) |-> ls.entries[i].name]

\* Whether the pattern matches the characters at the 0-based index i: a literal
\* character matches itself, .* matches any rest.
MatchesAt(r, chars, i) == r.char = ".*" \/ (i < Len(chars) /\ chars[i + 1] = r.char)

\* The index after a match at i.
MatchEnd(r, chars, i) == IF r.char = ".*" THEN Len(chars) ELSE i + 1

\* RegExp.prototype.test: a pattern without the g or y flag searches the whole
\* string and keeps no state; with g it searches from lastIndex, with y it
\* matches at lastIndex only, and both leave lastIndex after the match or reset
\* it to 0 when there is none.
RegExpTest(r, chars) ==
    LET from == IF r.flag = "" THEN 0 ELSE r.lastIndex
        tries == IF r.flag = "y" THEN {from} ELSE from..Len(chars)
        hits == {i \in tries : i <= Len(chars) /\ MatchesAt(r, chars, i)}
        first == CHOOSE i \in hits : \A j \in hits : i <= j
    IN  IF hits = {} THEN [match |-> FALSE, re |-> [r EXCEPT !.lastIndex = 0]]
        ELSE IF r.flag = "" THEN [match |-> TRUE, re |-> r]
        ELSE [match |-> TRUE, re |-> [r EXCEPT !.lastIndex = MatchEnd(r, chars, first)]]

\* The loop of files / subdirs over the entries: filter.test is called on the
\* entries of the wanted kind only, on one pattern object throughout.
RECURSIVE SelectEntries(_, _, _)
SelectEntries(entries, kind, r) ==
    IF entries = <<>> THEN [names |-> <<>>, re |-> r]
    ELSE IF Head(entries).kind # kind THEN SelectEntries(Tail(entries), kind, r)
    ELSE LET t == RegExpTest(r, NameChars(Head(entries).name))
             rest == SelectEntries(Tail(entries), kind, t.re)
         IN  [names |-> IF t.match THEN <<Head(entries).name>> \o rest.names
                        ELSE rest.names,
              re |-> rest.re]

Listed(out, err, list, r) == [out |-> out, err |-> err, list |-> list, re |-> r]

\* Directory.files(filter), iterated to its end
DirectoryFiles(tree, dir, filter) ==
    LET ls == ReaddirSync(tree, dir.path)
        sel == SelectEntries(ls.entries, "file", filter)
        filename(i) == AbsName(Join(dir.path, sel.names[i]))
    IN  IF ls.err # "OK" THEN Listed("throw", ls.err, <<>>, filter)
        ELSE Listed("list", "OK",
                    [i \in 1..Len(sel.names) |->
                       CreateFile(filename(i), StatSync(tree, filename(i)))],
                    sel.re)

\* Directory.subdirs(filter), iterated to its end
DirectorySubdirs(tree, dir, filter) ==
    LET ls == ReaddirSync(tree, dir.path)
        sel == SelectEntries(ls.entries, "dir", filter)
    IN  IF ls.err # "OK" THEN Listed("throw", ls.err, <<>>, filter)
        ELSE Listed("list", "OK",
                    [i \in 1..Len(sel.names) |-> Directory(AbsName(Join(dir.path, sel.names[i])))],
                    sel.re)

\* new RegExp(char, flag)
RegExp(char, flag) == [char |-> char, flag |-> flag, lastIndex |-> 0]

ListResult(op, dir, filter, o) ==
    [op |-> op, name |-> AbsName(dir.path), filter |-> filter,
     out |-> o.out, err |-> o.err, list |-> o.list]

InitList ==
    /\ fs \in Trees
    /\ pre = fs
    /\ d \in {Directory(AbsName(p)) : p \in {q \in {<<>>, Cwd} : fs[q].kind = "dir"}}
    /\ f = NoHandle
    /\ res = NoResult
    /\ io = Idle
    /\ re = DefaultFilter

\* re = /char/flag
NewPattern(char, flag) ==
    /\ re' = RegExp(char, flag)
    /\ UNCHANGED <<fs, pre, d, f, res, io>>

\* Array.from(d.files()): the default filter is a new /.*/
FilesDefault ==
    /\ res' = ListResult("files", d, DefaultFilter, DirectoryFiles(fs, d, DefaultFilter))
    /\ UNCHANGED <<fs, pre, d, f, io, re>>

\* Array.from(d.files(re))
FilesPattern ==
    /\ re # DefaultFilter
    /\ res' = ListResult("files", d, re, DirectoryFiles(fs, d, re))
    /\ re' = DirectoryFiles(fs, d, re).re
    /\ UNCHANGED <<fs, pre, d, f, io>>

\* Array.from(d.subdirs())
SubdirsDefault ==
    /\ res' = ListResult("subdirs", d, DefaultFilter, DirectorySubdirs(fs, d, DefaultFilter))
    /\ UNCHANGED <<fs, pre, d, f, io, re>>

\* Array.from(d.subdirs(re))
SubdirsPattern ==
    /\ re # DefaultFilter
    /\ res' = ListResult("subdirs", d, re, DirectorySubdirs(fs, d, re))
    /\ re' = DirectorySubdirs(fs, d, re).re
    /\ UNCHANGED <<fs, pre, d, f, io>>

NextList ==
    \/ \E char \in {"a", "b"}, flag \in {"", "g", "y"} : NewPattern(char, flag)
    \/ FilesDefault
    \/ FilesPattern
    \/ SubdirsDefault
    \/ SubdirsPattern

SpecList == InitList /\ [][NextList]_vars

\* Whether a name matches a pattern: what test answers on the pattern as
\* written (lastIndex 0).
NameMatches(n, filter) == RegExpTest(RegExp(filter.char, filter.flag), NameChars(n)).match

\* The children of the listed directory of one kind whose name matches the
\* pattern, in the order of entries().
Matching(kind) ==
    LET want(n) == /\ Node(fs, Join(d.path, n)).kind = kind
                   /\ NameMatches(n, res.filter)
    IN  SelectSeq(EntryNames(fs, d), want)

\* C10: for an unchanged directory and every pattern, also a pattern object
\* with the g or y flag reused across names and calls, files(pattern) yields
\* exactly the regular-file children whose name matches and subdirs(pattern)
\* exactly the matching directory children, each once and in the order of
\* entries(), the same on every call.
C10_FilesMatchPattern ==
    /\ res.op = "files" =>
          /\ res.out = "list"
          /\ Len(res.list) = Len(Matching("file"))
          /\ \A i \in 1..Len(res.list) :
                res.list[i].kind = "File" /\ res.list[i].path = Join(d.path, Matching("file")[i])
    /\ res.op = "subdirs" =>
          /\ res.out = "list"
          /\ Len(res.list) = Len(Matching("dir"))
          /\ \A i \in 1..Len(res.list) :
                res.list[i].kind = "Directory" /\ res.list[i].path = Join(d.path, Matching("dir")[i])

-----------------------------------------------------------------------------
(* Specification SpecEntry: handles over a changing filesystem             *)

\* Mutant of Unlink: a missing file is no error (rm with force).
UnlinkForce(tree, name) ==
    LET p == HostPath(name)
    IN  IF WalkErr(tree, p) # "OK" \/ Node(tree, p).kind # "file"
        THEN [err |-> "OK", fs |-> tree]
        ELSE [err |-> "OK", fs |-> [tree EXCEPT ![p] = Absent]]

\* fs.unlink(name)
Unlink(tree, name) ==
    LET p == HostPath(name)
    IN  IF WalkErr(tree, p) # "OK" THEN [err |-> WalkErr(tree, p), fs |-> tree]
        ELSE IF Node(tree, p).kind = "dir" THEN [err |-> "EISDIR", fs |-> tree]
        ELSE [err |-> "OK", fs |-> [tree EXCEPT ![p] = Absent]]

\* deleteFile(filename): the promise rejects with the error of unlink.
DeleteFile(tree, filename) ==
    LET rm == Unlink(tree, filename)
    IN  IF rm.err = "OK" THEN Outcome(rm.fs, "void", "OK", NoHandle)
        ELSE Outcome(rm.fs, "reject", rm.err, NoHandle)

\* File.delete()
FileDelete(tree, file) == DeleteFile(tree, AbsName(file.path))

\* Directory.remove(file): file is a name, or a File of which the name is taken.
DirectoryRemove(tree, dir, n) == DeleteFile(tree, AbsName(Join(dir.path, n)))

\* The program starts in its working directory, which holds one file.
InitEntry ==
    /\ \E data \in InitialDatas : fs = SliceTree(data)
    /\ pre = fs
    /\ d = NoHandle
    /\ f = NoHandle
    /\ res = NoResult
    /\ io = Idle
    /\ re = DefaultFilter

\* f = the File the last call returned
KeepFile ==
    /\ io.pc = "idle"
    /\ res.op \in {"openFile", "file"}
    /\ res.out = "File"
    /\ f' = res.h
    /\ UNCHANGED <<fs, pre, d, res, io, re>>

\* await f.delete()
DeleteOfFile ==
    /\ io.pc = "idle"
    /\ f.kind = "File"
    /\ LET o == FileDelete(fs, f)
       IN  /\ fs' = o.fs
           /\ pre' = fs
           /\ res' = Result("fileDelete", AbsName(f.path), "default", "", o)
    /\ UNCHANGED <<d, f, io, re>>

\* await d.remove(n)
Remove(n) ==
    /\ io.pc = "idle"
    /\ d.kind = "Directory"
    /\ Join(d.path, n) \in Paths
    /\ LET o == DirectoryRemove(fs, d, n)
       IN  /\ fs' = o.fs
           /\ pre' = fs
           /\ res' = Result("remove", AbsName(Join(d.path, n)), "default", n, o)
    /\ UNCHANGED <<d, f, io, re>>

\* await d.remove(f)
RemoveFile ==
    /\ f.kind = "File"
    /\ Remove(f.name)

\* d.entryNames() / d.entries()
Entries ==
    /\ io.pc = "idle"
    /\ d.kind = "Directory"
    /\ LET ls == ReaddirSync(fs, d.path)
       IN  res' = [op |-> "entries", name |-> AbsName(d.path),
                   out |-> IF ls.err = "OK" THEN "list" ELSE "throw",
                   err |-> ls.err, list |-> ls.entries, names |-> EntryNames(fs, d),
                   listed |-> fs]
    /\ UNCHANGED <<fs, pre, d, f, io, re>>

\* The promise of save / write has settled and the program goes on.
Settled ==
    /\ io.pc \in {"resolved", "rejected"}
    /\ io' = Idle
    /\ UNCHANGED <<fs, pre, d, f, res, re>>

\* f = f.slice(start, end)
SliceOfFile(start, end) ==
    /\ io.pc = "idle"
    /\ f.kind = "File"
    /\ f' = FileSlice(f, start, end)
    /\ UNCHANGED <<fs, pre, d, res, io, re>>

\* A step of a save or write in flight; the disk itself does not fail.
WriteStep ==
    \/ Save
    \/ Write
    \/ RdOpen
    \/ WrOpen
    \/ Copy
    \/ WrFlush
    \/ Finish
    \/ FinishFailed
    \/ Crash

\* The program is sequential: it awaits every promise before its next call.
NextEntry ==
    \/ io.pc = "idle" /\ \E name \in InputNames : Open(name, "default")
    \/ io.pc = "idle" /\ \E name \in InputNames : OpenFile(name, "default")
    \/ io.pc = "idle" /\ \E n \in Names : FileOf(n)
    \/ io.pc = "idle" /\ Delete
    \/ KeepFile
    \/ \E end \in {1, Infinity} : SliceOfFile(0, end)
    \/ DeleteOfFile
    \/ \E n \in Names : Remove(n)
    \/ RemoveFile
    \/ Entries
    \/ f.kind = "File" /\ d.kind = "Directory" /\ WriteStep
    \/ Settled

SpecEntry == InitEntry /\ [][NextEntry]_vars

-----------------------------------------------------------------------------
(* Claims about deleting (specifications SpecEntry and Spec)               *)

\* Whether the last call was f.delete() or d.remove(nameOrFile).
Unlinked == res.op \in {"fileDelete", "remove"}

\* The call removed the one file and nothing else.
RemovedOneFile ==
    /\ res.out = "void"
    /\ fs[ResPath] = Absent
    /\ OnlyChanged({ResPath})

\* The call rejected with err and changed nothing.
RejectedWith(err) == res.out = "reject" /\ res.err = err /\ fs = pre

\* A step of f.delete() or d.remove(nameOrFile).
UnlinkStep == DeleteOfFile \/ \E n \in Names : Remove(n)

\* A step leaves the handles as they are.
HandlesKept ==
    /\ f' = f /\ d' = d
    /\ f.kind = "File" =>
          /\ f'.path = f.path /\ f'.name = f.name
          /\ FileDirname(f') = FileDirname(f) /\ f'.byteLength = f.byteLength

\* What C12 states of the call just made.
UnlinkedAsStated ==
    /\ ResBefore.kind = "file" => RemovedOneFile
    /\ ResBefore.kind # "file" => RejectedWith("ENOENT")

UnlinkedAmended ==
    /\ ResBefore.kind = "file" => RemovedOneFile
    /\ (ResBefore.kind = "none" /\ WalkErr(pre, ResPath) = "ENOENT") => RejectedWith("ENOENT")
    /\ WalkErr(pre, ResPath) = "ENOTDIR" => RejectedWith("ENOTDIR")
    /\ ResBefore.kind = "dir" => RejectedWith("EISDIR")

\* C12 as stated: f.delete() and d.remove(nameOrFile) remove exactly the one
\* file; whenever that file is absent the call rejects with the not-found error
\* and the filesystem is unchanged; the handle keeps its path, name, dirname
\* and byteLength.
C12_AsStated == [][UnlinkStep => (Unlinked /\ UnlinkedAsStated)' /\ HandlesKept]_vars

\* C12 amended: the same, with not-found (ENOENT) where nothing exists at the
\* path and every component on the way is a directory; below a regular file
\* the call rejects with the host's ENOTDIR and on a directory with its
\* EISDIR, the filesystem unchanged in both.
C12_Delete == [][UnlinkStep => (Unlinked /\ UnlinkedAmended)' /\ HandlesKept]_vars

\* f.delete() was called on the handle of a file of one byte that is gone: it
\* rejected with not-found and the handle still has its path and byteLength.
C12_Witness ==
    /\ res.op = "fileDelete"
    /\ res.out = "reject" /\ res.err = "ENOENT"
    /\ f.kind = "File" /\ f.path = ResPath /\ f.byteLength = 1
    /\ fs[ResPath] = Absent

\* C13: d.delete() removes the directory at d.path with all its descendants and
\* nothing outside it; when the directory is absent the call rejects and does
\* not resolve silently.
C13_DeleteRecursive ==
    res.op = "delete" =>
        /\ ResBefore.kind = "dir" =>
              /\ res.out = "void"
              /\ \A q \in Paths : fs[q] = IF Below(ResPath, q) THEN Absent ELSE pre[q]
        /\ ResBefore.kind # "dir" =>
              /\ res.out = "reject"
              /\ fs = pre

-----------------------------------------------------------------------------
(* Claims about listings and handles (specification SpecEntry)             *)

\* The names of the children present at a path.
Children(tree, p) == {n \in Names : Node(tree, Join(p, n)).kind # "none"}

\* The last call listed the directory of d: the names and the entries are
\* exactly the children now present, each once and with its kind.
ListedChildren ==
    /\ res.op = "entries" /\ res.out = "list"
    /\ {res.names[i] : i \in 1..Len(res.names)} = Children(fs, d.path)
    /\ Len(res.names) = Cardinality(Children(fs, d.path))
    /\ Len(res.list) = Len(res.names)
    /\ \A i \in 1..Len(res.list) :
          /\ res.list[i].name = res.names[i]
          /\ res.list[i].kind = Node(fs, Join(d.path, res.names[i])).kind

\* The listing before this one was of the same directory and nothing has
\* changed since.
ListedBefore ==
    /\ res.op = "entries" /\ res.out = "list"
    /\ res.name = AbsName(d.path)
    /\ res.listed = fs

\* C14: after any sequence of write, save, remove, delete and auto-creating
\* open / openFile, entryNames() and entries() on a Directory handle of an
\* existing directory return exactly the children present at the call, and two
\* calls with no modification in between return the same names in the same
\* order.
C14_ListingsLive ==
    [][(Entries /\ Node(fs, d.path).kind = "dir" /\ WalkErr(fs, d.path) = "OK") =>
          /\ ListedChildren'
          /\ ListedBefore => (res'.names = res.names /\ res'.list = res.list)]_vars

\* The directory of d was listed when it held a subdirectory made by an
\* auto-creating open and a regular file.
C14_Witness ==
    /\ res.op = "entries" /\ res.listed = fs
    /\ d.path = Cwd
    /\ res.list = <<[name |-> "ab", kind |-> "dir"], [name |-> "ba", kind |-> "file"]>>

\* path.join(dirname, name) of a handle: the root has the empty name.
JoinName(p, n) == IF n = "" THEN p ELSE Join(p, n)

\* The Directory of a handle's dir getter.
DirOf(h) == Directory(AbsName(Dirname(h.path)))

\* The entry invariant of one handle.
EntryInvariant(h) ==
    /\ h.kind = "Directory" =>
          /\ h.path \in Seq(Names)
          /\ h.path = JoinName(DirectoryDirname(h), DirectoryName(h))
    /\ h.kind = "File" =>
          /\ h.path \in Seq(Names)
          /\ h.path = JoinName(FileDirname(h), h.name)
    /\ h.kind # "none" => DirOf(h).path = Dirname(h.path)

\* The handles the program holds or was just given.
HandlesHeld ==
    {d, f} \cup (IF res.op = "entries" THEN {} ELSE {res.h})
           \cup (IF io.pc = "idle" THEN {} ELSE {io.src, io.dir, io.h})

\* The handle a call returned has the path the call names.
PathAsNamed ==
    /\ (res.op \in {"open", "openFile"} /\ res.h.kind # "none") => res.h.path = Resolve(res.name)
    /\ (res.op = "file" /\ res.h.kind # "none") => res.h.path = Join(HostPath(res.name), res.child)
    /\ io.pc = "resolved" /\ io.out = "File" => io.h.path = Join(io.dir.path, io.src.name)

-----------------------------------------------------------------------------
(* Specification SpecBrowser: FileBrowser                                  *)

\* new FileBrowser(directory): the directory string is kept as given.
FileBrowser(directory) == [kind |-> "FileBrowser", directory |-> directory]

\* The constructor of FileBrowser: a missing directory is made, a path that is
\* no directory throws.
FileBrowserNew(tree, directory) ==
    LET st == StatSync(tree, directory)
        mk == MkdirSync(tree, directory)
    IN  IF st.err = "OK"
        THEN IF IsDirectory(st) THEN Outcome(tree, "FileBrowser", "OK", FileBrowser(directory))
             ELSE Throw(tree, "NotADirectory", directory)
        ELSE IF ~IsNoEntityError(st.err) THEN Outcome(tree, "throw", st.err, NoHandle)
        ELSE IF mk.err # "OK" THEN Outcome(tree, "throw", mk.err, NoHandle)
        ELSE Outcome(mk.fs, "FileBrowser", "OK", FileBrowser(directory))

\* FileBrowser.fileNames(), iterated to its end: the name of every entry that
\* fsp.opendir yields.
FileNames(tree, browser) ==
    LET ls == ReaddirSync(tree, HostPath(browser.directory))
    IN  IF ls.err # "OK" THEN Listed("throw", ls.err, <<>>, DefaultFilter)
        ELSE Listed("list", "OK", [i \in 1..Len(ls.entries) |-> ls.entries[i].name],
                    DefaultFilter)

InitBrowser ==
    /\ fs \in Trees
    /\ pre = fs
    /\ d = NoHandle
    /\ f = NoHandle
    /\ res = NoResult
    /\ io = Idle
    /\ re = DefaultFilter

\* d = new FileBrowser(name)
NewFileBrowser(name) ==
    LET o == FileBrowserNew(fs, name)
    IN  /\ fs' = o.fs
        /\ pre' = fs
        /\ d' = IF o.out = "FileBrowser" THEN o.h ELSE d
        /\ res' = Result("FileBrowser", name, "default", "", o)
        /\ UNCHANGED <<f, io, re>>

\* for await (let filename of d.fileNames()) ...
BrowseFileNames ==
    /\ d.kind = "FileBrowser"
    /\ LET o == FileNames(fs, d)
       IN  res' = [op |-> "fileNames", name |-> d.directory,
                   out |-> o.out, err |-> o.err, list |-> o.list]
    /\ pre' = fs
    /\ UNCHANGED <<fs, d, f, io, re>>

NextBrowser ==
    \/ \E name \in InputNames : NewFileBrowser(name)
    \/ BrowseFileNames

SpecBrowser == InitBrowser /\ [][NextBrowser]_vars

\* C16: fileNames() on a directory that holds regular files and subdirectories
\* yields exactly the names of the regular files, each once.
C16_FileNamesAreFiles ==
    (res.op = "fileNames" /\ res.out = "list") =>
        /\ {res.list[i] : i \in 1..Len(res.list)} =
              {n \in Names : Node(fs, Join(ResPath, n)).kind = "file"}
        /\ \A i, j \in 1..Len(res.list) : res.list[i] = res.list[j] => i = j

-----------------------------------------------------------------------------
(* Specification SpecStale: a File handle over a file that changes         *)

\* The indices and content types the program slices with.
StaleIndices == {0 - 1, 0, 1, Infinity}
ContentTypes == {Undefined, "text/x"}

\* The contents the file takes: one of every length.
StaleDatas == {x \in Datas : \A i \in 1..Len(x) : x[i] = i % 2}

\* The stream of a handle with the state of its read handle: none before the
\* host has opened the file, then open, and closed once released.
ReadStream(h) ==
    StartStream(h, "window", h, WindowOffset(h), WindowOffset(h) + WindowLength(h))
        @@ [fd |-> "none"]

\* Whether the read handle of the last stream is open.
FdOpen == io.pc # "idle" /\ io.fd = "open"

\* No stream is being read.
NotReading == io.pc \in {"idle", "abandoned"}

InitStale ==
    /\ \E data \in StaleDatas : fs = SliceTree(data)
    /\ pre = fs
    /\ d = NoHandle
    /\ f = FileOpen(fs, AbsName(SlicePath), "default").h
    /\ res = NoResult
    /\ io = Idle
    /\ re = DefaultFilter

\* f.slice(start, end, contentType)
SliceTo(start, end, contentType) ==
    /\ io.pc = "idle"
    /\ res' = [op |-> "slice", start |-> start, end |-> end, contentType |-> contentType,
               out |-> "File", h |-> FileSliceAs(f, start, end, contentType)]
    /\ UNCHANGED <<fs, pre, d, f, io, re>>

\* f = the slice just made
KeepSlice ==
    /\ io.pc = "idle"
    /\ res.op = "slice"
    /\ f' = res.h
    /\ res' = NoResult
    /\ UNCHANGED <<fs, pre, d, io, re>>

\* A write of other content to the path of f has completed.
Replace(data) ==
    /\ NotReading
    /\ fs' = [fs EXCEPT ![SlicePath] = FileNode(data)]
    /\ pre' = fs
    /\ UNCHANGED <<d, f, res, io, re>>

\* await f.delete()
DeleteStale ==
    /\ NotReading
    /\ fs' = FileDelete(fs, f).fs
    /\ pre' = fs
    /\ res' = [op |-> "fileDelete", out |-> FileDelete(fs, f).out, err |-> FileDelete(fs, f).err]
    /\ UNCHANGED <<d, f, io, re>>

\* f.stream(); the program starts a stream when the handle of the one before
\* is not open.
StartRead ==
    /\ NotReading
    /\ ~FdOpen
    /\ io' = ReadStream(f)
    /\ res' = [op |-> "stream", out |-> IF ReadStream(f).pc = "failed" THEN "throw" ELSE "stream",
               err |-> ReadStream(f).err]
    /\ UNCHANGED <<fs, pre, d, f, re>>

\* The host opens the file of the read stream, whether or not the stream is
\* read.
ReadOpen ==
    /\ io.pc \in {"reading", "abandoned"}
    /\ io.fd = "none"
    /\ ReadOpenErr(fs, io.rs) = "OK"
    /\ io' = [io EXCEPT !.fd = "open"]
    /\ UNCHANGED <<fs, pre, d, f, res, re>>

\* The consumer pulls the next chunk.
PullStale ==
    /\ io.pc = "reading"
    /\ io.fd = "open" \/ ReadOpenErr(fs, io.rs) # "OK"
    /\ io' = PullStream(fs, io, ChunkSize)
    /\ UNCHANGED <<fs, pre, d, f, res, re>>

\* The consumer cancels the stream or drops it: the ReadableStream of readFile
\* has no cancel(), so nothing reaches the read stream of the host.
Abandon ==
    /\ io.pc = "reading"
    /\ io' = [pc |-> "abandoned", rs |-> io.rs, fd |-> io.fd]
    /\ UNCHANGED <<fs, pre, d, f, res, re>>

\* The read stream of the host ended or failed and closes its file (autoClose).
Release ==
    /\ io.pc \in {"done", "failed"}
    /\ io.fd = "open"
    /\ io' = [io EXCEPT !.fd = "closed"]
    /\ UNCHANGED <<fs, pre, d, f, res, re>>

\* The program is done with a stream that has ended or failed.
Dropped ==
    /\ io.pc \in {"done", "failed"}
    /\ io.fd # "open"
    /\ io' = Idle
    /\ UNCHANGED <<fs, pre, d, f, res, re>>

NextStale ==
    \/ \E start, end \in StaleIndices, contentType \in ContentTypes :
          SliceTo(start, end, contentType)
    \/ KeepSlice
    \/ \E data \in StaleDatas : Replace(data)
    \/ DeleteStale
    \/ StartRead
    \/ ReadOpen
    \/ PullStale
    \/ Abandon
    \/ Release
    \/ Dropped

SpecStale == InitStale /\ [][NextStale]_vars

\* The host does its part; the consumer is free to stop.
SpecStaleFair == SpecStale /\ WF_vars(ReadOpen) /\ WF_vars(Release)

-----------------------------------------------------------------------------
(* Claims about stale handles, streams and slices (specification SpecStale) *)

\* Nothing is at the path of f any more.
FileGone == Node(fs, SlicePath).kind = "none"

\* A step that slices f.
SliceStep == res'.op = "slice" /\ res' # res

\* C17: after the file at f.path has been removed, a handle made earlier stays
\* usable as a value and slice() succeeds, and every later stream(), bytes() or
\* text() on it or on a slice of it fails with the not-found error and gives no
\* data, for every window, the empty one included.
C17_StaleHandle ==
    /\ []((FileGone /\ NotReading) =>
            /\ f.kind = "File" /\ f.path = SlicePath /\ f.name = Basename(SlicePath)
            /\ ReadAll(fs, f).err = "ENOENT"
            /\ res.op = "slice" => ReadAll(fs, res.h).err = "ENOENT")
    /\ [][FileGone =>
            /\ SliceStep => res'.out = "File" /\ res'.h.path = f.path
            /\ StartRead => io'.pc = "reading" /\ io'.chunks = <<>>
            /\ PullStale => io'.pc = "failed" /\ io'.err = "ENOENT"]_vars

\* The offsets of the bytes a pull yields.
Yielded == {k \in io.rs.pos..(io'.rs.pos - 1) : io'.pc = "reading"}

\* C18: the byteLength of a handle is the size seen by the stat that built it
\* and never changes when the file at its path grows, shrinks or is replaced;
\* a stream of the handle never yields a byte at a file offset at or beyond
\* offset + length, nor more than byteLength bytes in all.
C18_ByteLengthFixed ==
    [][/\ (DeleteStale \/ \E data \in StaleDatas : Replace(data)) =>
             f'.byteLength = f.byteLength /\ WindowLength(f') = WindowLength(f)
       /\ PullStale =>
             /\ \A k \in Yielded : k < io.hi
             /\ Len(Concat(io'.chunks)) <= WindowLength(io.h)]_vars

\* C19: every read handle opened for a stream is released in the end: when the
\* stream ends, when it fails, and when the consumer abandons it.
C19_HandlesReleased == FdOpen ~> ~FdOpen

\* The length of the slice [start, end) of a window of len bytes.
SliceIndex(x, len) == IF x < 0 THEN (IF len + x < 0 THEN 0 ELSE len + x)
                      ELSE (IF x > len THEN len ELSE x)

SliceLength(len, start, end) ==
    IF SliceIndex(end, len) > SliceIndex(start, len)
    THEN SliceIndex(end, len) - SliceIndex(start, len) ELSE 0

\* C20: f.slice(start, end, contentType) returns a new handle with the path,
\* name and dirname of f, of type contentType when given and of empty type
\* otherwise, whose byteLength is the clamped length of the slice; it accesses
\* no file and leaves f and the file on disk unchanged.
C20_SliceFrame ==
    /\ [](res.op = "slice" =>
            /\ res.out = "File"
            /\ res.h.path = f.path /\ res.h.name = f.name
            /\ FileDirname(res.h) = FileDirname(f)
            /\ res.h.type = IF res.contentType = Undefined THEN "" ELSE res.contentType
            /\ WindowLength(res.h) = SliceLength(WindowLength(f), res.start, res.end))
    /\ [][(res'.op = "slice" /\ res' # res) => (f' = f /\ fs' = fs)]_vars

\* A file whose name has a known type was sliced to a shorter window, once
\* with a content type and then without.
C20_Witness ==
    /\ res.op = "slice"
    /\ f.type = "text/x" /\ res.h.type = ""
    /\ WindowLength(f) = 2 /\ WindowLength(res.h) = 1
    /\ Lookup(AbsName(f.path)) = "text/ba"

-----------------------------------------------------------------------------
(* Specification SpecRace: openFile beside another writer                  *)

\* File.open(name, options) makes up to three calls to the host, and another
\* process may act between any two of them. The first call is the probing
\* statSync, with everything that follows it without another call: the handle
\* of a regular file, a throw, or the decision to create the file.
FileOpenProbe(tree, name, opt) ==
    LET st == StatSync(tree, name)
    IN  IF st.err = "OK"
        THEN IF ~IsFile(st)
             THEN Throw(tree, "WrongKind", name)
             ELSE Outcome(tree, "File", "OK", CreateFile(name, st))
        ELSE IF ~IsNoEntityError(st.err)
        THEN Outcome(tree, "throw", st.err, NoHandle)
        ELSE IF ~AutoCreate(opt)
        THEN Throw(tree, "NotFound", name)
        ELSE Outcome(tree, "create", "OK", NoHandle)

\* The auto-create step of File.open: fs.writeFileSync(name, "")
FileOpenCreate(tree, name) ==
    LET wr == WriteFileSyncEmpty(tree, name)
    IN  IF wr.err # "OK" THEN Outcome(wr.fs, "throw", wr.err, NoHandle)
        ELSE Outcome(wr.fs, "stat", "OK", NoHandle)

\* The second statSync of File.open and the kind check after it.
FileOpenStat(tree, name) ==
    LET st2 == StatSync(tree, name)
    IN  IF st2.err # "OK" THEN Outcome(tree, "throw", st2.err, NoHandle)
        ELSE IF ~IsFile(st2) THEN Throw(tree, "WrongKind", name)
        ELSE Outcome(tree, "File", "OK", CreateFile(name, st2))

\* The call of File.open that is between two calls to the host.
Opening(pc, name, opt) == [pc |-> pc, name |-> name, opt |-> opt]

InitRace ==
    /\ fs \in Trees
    /\ pre = fs
    /\ d = NoHandle
    /\ f = NoHandle
    /\ res = NoResult
    /\ io = Idle
    /\ re = DefaultFilter

\* openFile(name, options) is called and probes the path.
OpenFileProbe(name, opt) ==
    /\ io.pc = "idle"
    /\ LET o == FileOpenProbe(fs, name, opt)
       IN  IF o.out = "create"
           THEN /\ io' = Opening("creating", name, opt)
                /\ res' = NoResult
           ELSE /\ io' = Idle
                /\ res' = Result("openFile", name, opt, "", o)
    /\ pre' = fs
    /\ UNCHANGED <<fs, d, f, re>>

\* openFile found nothing at the path and creates the file.
OpenFileCreate ==
    /\ io.pc = "creating"
    /\ LET o == FileOpenCreate(fs, io.name)
       IN  /\ fs' = o.fs
           /\ IF o.out = "stat"
              THEN /\ io' = Opening("created", io.name, io.opt)
                   /\ res' = res
              ELSE /\ io' = Idle
                   /\ res' = Result("openFile", io.name, io.opt, "", o)
    /\ UNCHANGED <<pre, d, f, re>>

\* openFile stats the file it created and returns.
OpenFileReturn ==
    /\ io.pc = "created"
    /\ io' = Idle
    /\ res' = Result("openFile", io.name, io.opt, "", FileOpenStat(fs, io.name))
    /\ UNCHANGED <<fs, pre, d, f, re>>

\* Another process creates the file at p or writes it, with its own content.
OtherWrite(p, data) ==
    /\ OpenForWrite(fs, AbsName(p)).err = "OK"
    /\ fs' = [fs EXCEPT ![p] = FileNode(data)]
    /\ UNCHANGED <<pre, d, f, res, io, re>>

NextRace ==
    \/ \E name \in InputNames, opt \in {"default", "false"} : OpenFileProbe(name, opt)
    \/ OpenFileCreate
    \/ OpenFileReturn
    \/ \E p \in Paths \ {<<>>}, data \in InitialDatas : OtherWrite(p, data)

SpecRace == InitRace /\ [][NextRace]_vars

-----------------------------------------------------------------------------
(* Claims about openFile beside another writer (specification SpecRace)    *)

\* A step of openFile: only openFile moves its own position.
OpenFileStep == io' # io

\* The node at the path openFile is creating.
Creating(tree) == Node(tree, HostPath(io.name))

\* C21: openFile(path) never changes the content of a file that exists at path:
\* whenever another writer creates or writes the file between the probing stat
\* and the auto-create step, the bytes it wrote are still there when openFile
\* returns; the auto-create step only creates a missing file and never
\* truncates an existing one, and no other step of openFile writes.
C21_OpenFileKeepsContent ==
    [][OpenFileStep =>
          IF io.pc = "creating"
          THEN Creating(fs).kind = "file" => Creating(fs') = Creating(fs)
          ELSE fs' = fs]_vars

-----------------------------------------------------------------------------
(* Specification SpecIter: iterating files() beside a concurrent remove    *)

\* The names Directory.files() goes on to stat: the entries of the listing
\* whose kind flag says regular file and whose name passes the filter.
FilesToStat(tree, dir) ==
    LET ls == ReaddirSync(tree, dir.path)
    IN  [err |-> ls.err, names |-> SelectEntries(ls.entries, "file", DefaultFilter).names]

\* What one turn of an iteration gave: a handle or null, with the kind that the
\* stat of the child found, or a throw.
Yield(out, err, h, st) == [out |-> out, err |-> err, h |-> h, stat |-> st.kind]

\* One turn of the loop of Directory.files():
\* yield createFile(filename, fs.statSync(filename)), the stat unguarded.
FilesYield(tree, dir, n) ==
    LET filename == AbsName(Join(dir.path, n))
        st == StatSync(tree, filename)
    IN  IF st.err # "OK" THEN Yield("throw", st.err, NoHandle, st)
        ELSE Yield("File", "OK", CreateFile(filename, st), st)

\* path.join(directory, filename) of a directory string and one segment
JoinString(directory, n) == [directory EXCEPT !.segs = Append(@, n)]

\* new File(content, name, props) of file.ts: a lazy file named as given that
\* carries the directory and the kind flags of its stat.
BrowserFile(byteLength, name, dirname, st) ==
    [kind |-> "File", name |-> name, dirname |-> dirname, byteLength |-> byteLength,
     isDirectory |-> IsDirectory(st), isFile |-> IsFile(st),
     type |-> Lookup([rel |-> TRUE, segs |-> <<name>>])]

\* FileBrowser.get(filename): null when nothing is at the path.
FileBrowserGet(tree, browser, filename) ==
    LET file == JoinString(browser.directory, filename)
        st == StatSync(tree, file)
    IN  IF st.err = "OK"
        THEN Yield("File", "OK", BrowserFile(st.size, filename, browser.directory, st), st)
        ELSE IF IsNoEntityError(st.err) THEN Yield("null", "OK", NoHandle, st)
        ELSE Yield("throw", st.err, NoHandle, st)

\* An iteration between two calls to the host: the names still to visit and
\* what was yielded so far.
Iterating(op, names, list) == [pc |-> op, names |-> names, list |-> list]

\* The end of an iteration.
Iterated(op, out, err, list) == [op |-> op, out |-> out, err |-> err, list |-> list]

InitIter ==
    /\ fs \in {t \in Trees : t[Cwd].kind = "dir"}
    /\ pre = fs
    /\ d \in {Directory(AbsName(Cwd)), FileBrowser(AbsName(Cwd))}
    /\ f = NoHandle
    /\ res = NoResult
    /\ io = Idle
    /\ re = DefaultFilter

\* for (let file of d.files()) ...: the first turn lists the directory.
IterFiles ==
    /\ io.pc = "idle"
    /\ d.kind = "Directory"
    /\ LET ls == FilesToStat(fs, d)
       IN  IF ls.err # "OK"
           THEN /\ res' = Iterated("files", "throw", ls.err, <<>>)
                /\ io' = io
           ELSE /\ io' = Iterating("files", ls.names, <<>>)
                /\ res' = NoResult
    /\ pre' = fs
    /\ UNCHANGED <<fs, d, f, re>>

\* The loop of Directory.files() stats the next listed file and yields it.
IterStat ==
    /\ io.pc = "files"
    /\ io.names # <<>>
    /\ LET y == FilesYield(fs, d, Head(io.names))
       IN  IF y.out = "throw"
           THEN /\ res' = Iterated("files", "throw", y.err, io.list)
                /\ io' = Idle
           ELSE /\ io' = Iterating("files", Tail(io.names), Append(io.list, y))
                /\ res' = res
    /\ UNCHANGED <<fs, pre, d, f, re>>

\* for await (let file of d.files()) ... of a FileBrowser: fileNames() opens
\* the directory and reads its entries.
BrowseFiles ==
    /\ io.pc = "idle"
    /\ d.kind = "FileBrowser"
    /\ LET ls == FileNames(fs, d)
       IN  IF ls.out = "throw"
           THEN /\ res' = Iterated("browse", "throw", ls.err, <<>>)
                /\ io' = io
           ELSE /\ io' = Iterating("browse", ls.list, <<>>)
                /\ res' = NoResult
    /\ pre' = fs
    /\ UNCHANGED <<fs, d, f, re>>

\* The loop of FileBrowser.files(): yield this.get(filename) as File
BrowseGet ==
    /\ io.pc = "browse"
    /\ io.names # <<>>
    /\ LET y == FileBrowserGet(fs, d, Head(io.names))
       IN  IF y.out = "throw"
           THEN /\ res' = Iterated("browse", "throw", y.err, io.list)
                /\ io' = Idle
           ELSE /\ io' = Iterating("browse", Tail(io.names), Append(io.list, y))
                /\ res' = res
    /\ UNCHANGED <<fs, pre, d, f, re>>

\* The iteration has visited every listed name and ends.
IterDone ==
    /\ io.pc \in {"files", "browse"}
    /\ io.names = <<>>
    /\ res' = Iterated(io.pc, "list", "OK", io.list)
    /\ io' = Idle
    /\ UNCHANGED <<fs, pre, d, f, re>>

\* Another process removes the child n of the directory.
OtherRemove(n) ==
    /\ RmRecursive(fs, Join(Cwd, n)).err = "OK"
    /\ fs' = RmRecursive(fs, Join(Cwd, n)).fs
    /\ UNCHANGED <<pre, d, f, res, io, re>>

NextIter ==
    \/ IterFiles
    \/ IterStat
    \/ BrowseFiles
    \/ BrowseGet
    \/ IterDone
    \/ \E n \in Names : OtherRemove(n)

SpecIter == InitIter /\ [][NextIter]_vars

-----------------------------------------------------------------------------
(* Claims about iterating beside a remove (specification SpecIter)         *)

\* C22: iterating Directory.files() or FileBrowser.files() tolerates a child
\* that vanishes between the listing and the stat of the child: under every
\* interleaving with a concurrent remove the iteration does not throw, never
\* yields null nor a handle of an entry that was absent at its stat, and yields
\* only handles of entries that were regular files when they were stat-ed.
C22_IterationTolerant ==
    res.op \in {"files", "browse"} =>
        /\ res.out = "list"
        /\ \A i \in 1..Len(res.list) :
              /\ res.list[i].out = "File"
              /\ res.list[i].h.kind = "File"
              /\ res.list[i].stat = "file"

-----------------------------------------------------------------------------
(* Specification SpecKind: enumeration and lookup over symbolic links      *)

\* The paths the links of the directory point to: the working directory itself
\* (a directory) and /ba (a regular file, or nothing).
LinkTargets == {Cwd, <<"ba">>}

\* The entries of the directory: nothing, a subdirectory, a regular file, or a
\* symbolic link.
KindNodes == Nodes \cup {LinkNode(to) : to \in LinkTargets}

\* The trees of SpecKind: the working directory with its two entries, beside
\* /ba, which is a regular file or absent.
KindTrees ==
    {t \in [Paths -> KindNodes] :
        /\ t[<<>>] = DirNode
        /\ t[Cwd] = DirNode
        /\ t[<<"ba">>] \in {Absent, FileNode(<<1>>)}}

InitKind ==
    /\ fs \in KindTrees
    /\ pre = fs
    /\ d = Directory(AbsName(Cwd))
    /\ f = NoHandle
    /\ res = NoResult
    /\ io = Idle
    /\ re = DefaultFilter

\* The program enumerates the unchanged directory and looks its entries up.
NextKind ==
    \/ FilesDefault
    \/ SubdirsDefault
    \/ \E n \in Names : FileOf(n)
    \/ \E n \in Names : Subdir(n)

SpecKind == InitKind /\ [][NextKind]_vars

-----------------------------------------------------------------------------
(* Claims about enumeration and lookup (specification SpecKind)            *)

\* The names of the handles an enumeration yielded.
YieldedNames == {Basename(res.list[i].path) : i \in 1..Len(res.list)}

\* The names of the entries of d.
EntryNameSet == {EntryNames(fs, d)[i] : i \in 1..Len(EntryNames(fs, d))}

\* The entry names for which d.file(n), d.subdir(n) is not null.
FoundByFile == {n \in EntryNameSet : DirectoryFile(fs, d, n).out = "File"}
FoundBySubdir == {n \in EntryNameSet : DirectorySubdir(fs, d, n).out = "Directory"}

\* C23: enumeration and lookup agree on kind: for an unchanged directory d that
\* holds regular files, subdirectories and symbolic links to either, the names
\* d.files() yields are the entry names n for which d.file(n) is not null, and
\* the names d.subdirs() yields are those for which d.subdir(n) is not null.
C23_EnumerationAgrees ==
    /\ res.op = "files" =>
          res.out = "list" /\ YieldedNames = FoundByFile
    /\ res.op = "subdirs" =>
          res.out = "list" /\ YieldedNames = FoundBySubdir


====
